---- MODULE Spec2Model ----
(***************************************************************************)
(* getme: the build-fallback command (Pinata, src/main.go) and the         *)
(* release-asset resolver (AssetUrl, src/github/github.go).                *)
(*                                                                         *)
(* Spec        : one run of Pinata against a cache store and a CI system   *)
(*               whose answers are chosen nondeterministically.            *)
(* SpecLive    : Spec, with every call returning.                          *)
(* SpecAsset   : one call of AssetUrl on a reference, a header list and an *)
(*               HTTP exchange drawn from bounded sets.                    *)
(* SpecExtract : one run of the Extract command on an argument list.       *)
(***************************************************************************)
EXTENDS Integers, Sequences, FiniteSets, TLC

VARIABLES
    pc,        \* position of the Pinata run
    outcome,   \* "none" while running, then "ok", an error, or "panic"
    printed,   \* number of paths written to stdout by Download
    log,       \* remote calls made so far, oldest first: [op, arg, ok]
    builds,    \* build records of the job, in the order GetAllBuildIds lists them
    idx,       \* position of the scan over ids (range loop, main.go:156)
    build,     \* the build record last returned by GetBuild
    qPolls,    \* iterations of the queue loop that slept
    bPolls,    \* iterations of the completion loop that slept
    req,       \* what the run was started with: platform and the force flag
    args,      \* args[i] is what call log[i] was made with, or what it found
    apc,       \* "idle" before the call of a one-call specification, "done" after it
    call       \* the inputs of that call and what it produced

pvars == <<pc, outcome, printed, log, builds, idx, build, qPolls, bPolls, req, args>>
avars == <<apc, call>>
vars == <<pvars, avars>>

----------------------------------------------------------------------------
(* Bounds *)

MaxBuilds == 2       \* length of the build listing
MaxQueuePolls == 2   \* polls that still find the task queued
MaxBuildPolls == 2   \* polls that still find the build running

----------------------------------------------------------------------------
(* Pinata, src/main.go:115-182 *)

\* the commit argument of the run, and another commit
commit == "c1"
Commits == {"c1", "c2"}

\* the other arguments of the run (main.go:97-104) and the --force flag
\* (main.go:20-22, 34)
bucket == "bkt"
Platforms == {"mac", "win"}
options == [AuthToken |-> "tok", Sha256 |-> "sum"]
Requests == [platform : Platforms, force : BOOLEAN]

\* fmt.Sprintf("https://storage.googleapis.com/%s/%s/docker-for-%s.iso.tgz",
\*             bucket, commit, platform) (main.go:116)
Binary(b, c, p) ==
    <<"https://storage.googleapis.com/", b, "/", c, "/docker-for-", p, ".iso.tgz">>

\* what cache.Download is called with: url, options, force (main.go:190)
FetchArgsMut == [url |-> Binary(bucket, commit, req.platform), options |-> options,
                 force |-> Len(log) > 0]
FetchArgs == [url |-> Binary(bucket, commit, req.platform), options |-> options,
              force |-> req.force]

\* fmt.Sprintf("pinata-%s-iso", platform) (main.go:127)
JobNameMut(p) == <<"pinata-", commit, "-iso">>
JobName(p) == <<"pinata-", p, "-iso">>

\* map[string]string{"COMMIT_ID": commit} (main.go:132-134)
InvokeParams == [k \in {"COMMIT_ID"} |-> commit]

NoArgs == [none |-> TRUE]

\* parameter lists a build record can carry (GetParameters may be empty)
ParamLists == {<<>>} \cup {<<c>> : c \in Commits} \cup {<<"c2", "c1">>}

\* what the CI system holds for one build: its parameters and its result
BuildRecords == [params : ParamLists, good : BOOLEAN]

NoBuild == [params |-> <<>>, running |-> FALSE, good |-> FALSE]

RECURSIVE SeqsUpTo(_, _)
SeqsUpTo(S, n) ==
    IF n = 0 THEN {<<>>}
    ELSE LET shorter == SeqsUpTo(S, n - 1)
         IN shorter \cup {Append(s, x) : s \in {t \in shorter : Len(t) = n - 1}, x \in S}

\* error returned by each remote operation when it fails
ErrOf(op) ==
    CASE op = "fetch"    -> "CacheError"
      [] op = "connect"  -> "BuildConnectError"
      [] op = "getjob"   -> "JobNotFoundError"
      [] op = "invoke"   -> "BuildTriggerError"
      [] op = "queue"    -> "QueueError"
      [] op = "list"     -> "ListError"
      [] op = "getbuild" -> "BuildFetchError"

Call(op, arg, ok) == [op |-> op, arg |-> arg, ok |-> ok]

\* return err (main.go:124, 129, 136, 143, 154, 159, 170)
FailMut(op) ==
    /\ pc' = pc
    /\ outcome' = outcome
Fail(op) ==
    /\ pc' = "done"
    /\ outcome' = ErrOf(op)

\* Download (main.go:186-198): one cache fetch; the path is printed on success
Download(ok) ==
    /\ log' = Append(log, Call("fetch", 0, ok))
    /\ args' = Append(args, FetchArgs)
    /\ printed' = IF ok THEN printed + 1 ELSE printed

\* if err != nil { ...fallback... } ; return nil (main.go:118, 181)
AfterFirstFetchMut(ok) == "connect"
AfterFirstFetch(ok) == IF ok THEN "done" ELSE "connect"

\* S0: err := Download(binary, options) (main.go:116-118)
AttemptCache ==
    /\ pc = "S0"
    /\ \E ok \in BOOLEAN :
         /\ Download(ok)
         /\ pc' = AfterFirstFetch(ok)
         /\ outcome' = IF pc' = "done" THEN "ok" ELSE outcome
    /\ UNCHANGED <<builds, idx, build, qPolls, bPolls>>

\* a CI call that either fails the run or moves it to the next call
SimpleCall(at, op, next, a) ==
    /\ pc = at
    /\ \E ok \in BOOLEAN :
         /\ log' = Append(log, Call(op, 0, ok))
         /\ args' = Append(args, a)
         /\ IF ok THEN pc' = next /\ outcome' = outcome
                  ELSE Fail(op)
    /\ UNCHANGED <<printed, builds, idx, build, qPolls, bPolls>>

\* S1: jenkins.Init() (main.go:121-125)
Connect == SimpleCall("connect", "connect", "getjob", NoArgs)

\* S1: jenkins.GetJob(...) (main.go:127-130)
GetJob == SimpleCall("getjob", "getjob", "invoke", [name |-> JobName(req.platform)])

\* S1: job.InvokeSimple(...) (main.go:132-137)
Invoke == SimpleCall("invoke", "invoke", "queue", [params |-> InvokeParams])

\* task := queue.GetTaskById(taskId); if task == nil { break } (main.go:145-148)
AfterQueuePollMut(present) == IF present THEN "list" ELSE "queue"
AfterQueuePoll(present) == IF present THEN "queue" ELSE "list"

\* S2: one iteration of the queue loop (main.go:140-150)
PollQueue ==
    /\ pc = "queue"
    /\ \E r \in {"err", "present", "absent"} :
         /\ log' = Append(log, Call("queue", 0, r # "err"))
         /\ args' = Append(args, [present |-> r = "present"])
         /\ IF r = "err"
            THEN Fail("queue") /\ qPolls' = qPolls
            ELSE /\ pc' = AfterQueuePoll(r = "present")
                 /\ outcome' = outcome
                 /\ pc' = "queue" => qPolls < MaxQueuePolls
                 /\ qPolls' = IF pc' = "queue" THEN qPolls + 1 ELSE qPolls
    /\ UNCHANGED <<printed, builds, idx, build, bPolls>>

\* id.Number of the i-th listed id: the listing starts with the newest build
Number(i) == Len(builds) + 1 - i

\* head of the range loop over ids, and the return after it (main.go:156, 179)
ScanFrom(i) ==
    /\ idx' = i
    /\ IF i > Len(builds)
       THEN pc' = "done" /\ outcome' = "BuildNotFoundError"
       ELSE pc' = "scan" /\ outcome' = outcome

\* S3: ids, err := job.GetAllBuildIds() (main.go:152-156)
ListBuilds ==
    /\ pc = "list"
    /\ \E ok \in BOOLEAN :
         /\ log' = Append(log, Call("list", 0, ok))
         /\ args' = Append(args, NoArgs)
         /\ IF ok THEN ScanFrom(1)
                  ELSE Fail("list") /\ idx' = idx
    /\ UNCHANGED <<printed, builds, build, qPolls, bPolls>>

\* what GetBuild returns for listed build i when it is observed running or not
Observe(i, running) ==
    [params |-> builds[i].params, running |-> running, good |-> builds[i].good]

\* build.GetParameters()[0].Value == commit (main.go:161)
MatchesMut(b) == TRUE
MatchesLastMut(b) == b.params[Len(b.params)] = commit
Matches(b) == b.params[1] = commit

\* S5: if build.IsGood() { return Download } ; return "Build failed" (main.go:173-176)
EvaluateMut(b) ==
    IF b.good
    THEN pc' = "done" /\ outcome' = "BuildFailedError"
    ELSE pc' = "retry" /\ outcome' = outcome
Evaluate(b) ==
    IF b.good
    THEN pc' = "retry" /\ outcome' = outcome
    ELSE pc' = "done" /\ outcome' = "BuildFailedError"

\* head of the completion loop: if !build.IsRunning() { break } (main.go:162-167)
AwaitOrEvaluateMut(b) == Evaluate(b)
AwaitOrEvaluate(b) ==
    IF b.running
    THEN pc' = "await" /\ outcome' = outcome
    ELSE Evaluate(b)

\* S3: one iteration of the scan: GetBuild, then the parameter test (main.go:157-161)
ScanBuild ==
    /\ pc = "scan"
    /\ \E ok \in BOOLEAN, running \in BOOLEAN :
         /\ running => bPolls < MaxBuildPolls
         /\ log' = Append(log, Call("getbuild", Number(idx), ok))
         /\ args' = Append(args, [at |-> pc])
         /\ IF ~ok
            THEN Fail("getbuild") /\ UNCHANGED <<idx, build, bPolls>>
            ELSE LET b == Observe(idx, running) IN
                 /\ build' = b
                 /\ IF Len(b.params) = 0
                    THEN \* index out of range: the run panics
                         /\ pc' = "done" /\ outcome' = "panic"
                         /\ UNCHANGED <<idx, bPolls>>
                    ELSE IF Matches(b)
                    THEN /\ AwaitOrEvaluate(b)
                         /\ bPolls' = IF b.running THEN bPolls + 1 ELSE bPolls
                         /\ idx' = idx
                    ELSE /\ ScanFrom(idx + 1)
                         /\ bPolls' = bPolls
    /\ UNCHANGED <<printed, builds, qPolls>>

\* S4 with the build never fetched again: the loop sleeps on the same record
AwaitBuildMut ==
    /\ pc = "await"
    /\ UNCHANGED pvars

\* S4: sleep, GetBuild again, back to the loop head (main.go:167-172, 163)
AwaitBuild ==
    /\ pc = "await"
    /\ \E ok \in BOOLEAN, running \in BOOLEAN :
         /\ running => bPolls < MaxBuildPolls
         /\ log' = Append(log, Call("getbuild", Number(idx), ok))
         /\ args' = Append(args, [at |-> pc])
         /\ IF ~ok
            THEN Fail("getbuild") /\ UNCHANGED <<build, bPolls>>
            ELSE LET b == Observe(idx, running) IN
                 /\ build' = b
                 /\ AwaitOrEvaluate(b)
                 /\ bPolls' = IF b.running THEN bPolls + 1 ELSE bPolls
    /\ UNCHANGED <<printed, builds, idx, qPolls>>

\* the error Pinata returns from the second Download (main.go:174)
RetryOutcomeMut(ok) == "ok"
RetryOutcome(ok) == IF ok THEN "ok" ELSE ErrOf("fetch")

\* return Download(binary, options) (main.go:174)
RetryCache ==
    /\ pc = "retry"
    /\ \E ok \in BOOLEAN :
         /\ Download(ok)
         /\ pc' = "done"
         /\ outcome' = RetryOutcome(ok)
    /\ UNCHANGED <<builds, idx, build, qPolls, bPolls>>

AssetIdle == apc = "idle" /\ call = <<>>

Init ==
    /\ pc = "S0"
    /\ outcome = "none"
    /\ printed = 0
    /\ log = <<>>
    /\ builds \in SeqsUpTo(BuildRecords, MaxBuilds)
    /\ idx = 0
    /\ build = NoBuild
    /\ qPolls = 0
    /\ bPolls = 0
    /\ req \in Requests
    /\ args = <<>>
    /\ AssetIdle

Next ==
    \/ AttemptCache /\ UNCHANGED <<req, avars>>
    \/ Connect /\ UNCHANGED <<req, avars>>
    \/ GetJob /\ UNCHANGED <<req, avars>>
    \/ Invoke /\ UNCHANGED <<req, avars>>
    \/ PollQueue /\ UNCHANGED <<req, avars>>
    \/ ListBuilds /\ UNCHANGED <<req, avars>>
    \/ ScanBuild /\ UNCHANGED <<req, avars>>
    \/ AwaitBuild /\ UNCHANGED <<req, avars>>
    \/ RetryCache /\ UNCHANGED <<req, avars>>

Spec == Init /\ [][Next]_vars

\* Pinata is one sequential thread: when the remote call it is blocked on
\* returns, it takes its next step. MaxQueuePolls and MaxBuildPolls bound the
\* polls that find the task still queued and the build still running.
SpecLive == Init /\ [][Next]_vars /\ WF_vars(Next)

----------------------------------------------------------------------------
(* Properties of the Pinata run *)

Last(q) == q[Len(q)]
Count(op) == Cardinality({i \in 1..Len(log) : log[i].op = op})
Fetches == Count("fetch")
CIOps == {"connect", "getjob", "invoke", "queue", "list", "getbuild"}
CICalls == Cardinality({i \in 1..Len(log) : log[i].op \in CIOps})
Errors == {ErrOf(op) : op \in CIOps \cup {"fetch"}}
              \cup {"BuildFailedError", "BuildNotFoundError"}

FirstFetchOk == Len(log) >= 1 /\ log[1].op = "fetch" /\ log[1].ok
FirstFetchFailed == Len(log) >= 1 /\ log[1].op = "fetch" /\ ~log[1].ok

\* the last build record returned has the requested commit as first parameter
\* and was observed not running
Completed ==
    /\ Len(build.params) > 0
    /\ build.params[1] = commit
    /\ ~build.running

\* C1: when the first cache fetch succeeds, no CI operation is performed,
\* exactly one cache fetch is made and the run ends in success.
C1_CacheHitSkipsCI ==
    FirstFetchOk =>
        /\ CICalls = 0
        /\ Fetches = 1
        /\ pc = "done"
        /\ outcome = "ok"

C1_Witness == pc = "done" /\ FirstFetchOk /\ Len(log) = 1

\* C2: when the first fetch failed and the build with the requested commit is
\* observed not running and successful, exactly one more cache fetch is made
\* and its outcome is the outcome of the run; no run makes more than two
\* cache fetches.
C2_RetryOnceAfterGoodBuild ==
    /\ Fetches <= 2
    /\ (FirstFetchFailed /\ Completed /\ build.good) =>
          \/ pc = "retry" /\ Fetches = 1 /\ outcome = "none"
          \/ /\ pc = "done"
             /\ Fetches = 2
             /\ Last(log).op = "fetch"
             /\ outcome = IF Last(log).ok THEN "ok" ELSE "CacheError"
    /\ (pc = "done" /\ Fetches = 2) => (Completed /\ build.good)

C2_Witness ==
    /\ pc = "done"
    /\ Completed /\ build.good
    /\ bPolls > 0
    /\ Fetches = 2
    /\ ~Last(log).ok
    /\ outcome = "CacheError"

\* C3: when the selected build is observed not running with its success flag
\* false, the run ends with BuildFailedError, and neither a cache fetch nor a
\* CI call follows that observation.
C3_FailedBuildIsFinal ==
    (FirstFetchFailed /\ Completed /\ ~build.good) =>
        /\ pc = "done"
        /\ outcome = "BuildFailedError"
        /\ Fetches = 1
        /\ Last(log) = Call("getbuild", Number(idx), TRUE)

C3_Witness ==
    /\ pc = "done"
    /\ Completed /\ ~build.good
    /\ outcome = "BuildFailedError"
    /\ bPolls > 0

\* no listed build record has the requested commit as first parameter
NoneMatches ==
    \A i \in 1..Len(builds) :
        ~(Len(builds[i].params) > 0 /\ builds[i].params[1] = commit)

\* every CI call of the run returned without error
AllCICallsOk == \A i \in 2..Len(log) : log[i].ok

\* C4: when the builds were listed and none of them has a first parameter
\* equal to the requested commit (the empty list included), the run ends with
\* BuildNotFoundError, having fetched every listed build once and with no
\* second cache fetch.
C4_NoMatchIsBuildNotFound ==
    (pc = "done" /\ Count("list") = 1 /\ AllCICallsOk /\ NoneMatches) =>
        /\ outcome = "BuildNotFoundError"
        /\ \A i \in 1..Len(builds) :
              Cardinality({j \in 1..Len(log) :
                  log[j] = Call("getbuild", Number(i), TRUE)}) = 1
        /\ Count("getbuild") = Len(builds)
        /\ Fetches = 1

\* C5: a failed first cache fetch moves the run to the CI connect; any other
\* failed call is the last call of the run, which ends with that call's error.
C5_OnlyFirstFetchRecovers ==
    \A i \in 1..Len(log) :
        ~log[i].ok =>
            IF i = 1
            THEN /\ log[i].op = "fetch"
                 /\ Len(log) = 1 => (pc = "connect" /\ outcome = "none")
                 /\ Len(log) > 1 => log[2].op = "connect"
            ELSE /\ i = Len(log)
                 /\ pc = "done"
                 /\ outcome = ErrOf(log[i].op)

C5_Witness ==
    /\ pc = "done"
    /\ Len(log) > 1
    /\ Last(log) = Call("getbuild", Number(idx), FALSE)
    /\ build.running
    /\ outcome = "BuildFetchError"

\* C10: a run that has ended has either succeeded with exactly one path
\* printed, or returned one error with no path printed.
C10_PathOrError ==
    pc = "done" =>
        \/ outcome = "ok" /\ printed = 1
        \/ outcome \in Errors /\ printed = 0

\* the queue poll log[j] found the task id in the queue / did not find it
PolledPresent(j) == log[j].op = "queue" /\ log[j].ok /\ args[j].present
PolledAbsent(j) == log[j].op = "queue" /\ log[j].ok /\ ~args[j].present

\* C11: the build listing is requested only right after a queue poll that did
\* not find the task id; after a poll that found it the run is still in S2 and
\* the next call, if any, is another queue poll, so that no listing, build
\* fetch or cache retry happens before a poll without the task id; the loop
\* itself never stops polling.
C11_ListOnlyAfterAbsentPoll ==
    /\ \A j \in 1..Len(log) :
          /\ log[j].op = "list" => (j > 1 /\ PolledAbsent(j - 1))
          /\ PolledPresent(j) =>
                IF j = Len(log) THEN pc = "queue" /\ outcome = "none"
                                ELSE log[j + 1].op = "queue"
          /\ (log[j].op \in {"list", "getbuild"} \/ (log[j].op = "fetch" /\ j > 1)) =>
                \E k \in 1..(j - 1) : PolledAbsent(k)
    /\ (pc = "queue" /\ qPolls < MaxQueuePolls) => ENABLED (PollQueue /\ pc' = "queue")

C11_Witness ==
    /\ qPolls >= 2
    /\ Count("list") = 1
    /\ PolledPresent(Len(log) - 2)
    /\ PolledAbsent(Len(log) - 1)

\* the i-th listed build record has the requested commit as first parameter
FirstParamIs(i) == Len(builds[i].params) > 0 /\ builds[i].params[1] = commit

\* position in the listing of the build with number n
Pos(n) == Len(builds) + 1 - n

GetBuildCalls == {j \in 1..Len(log) : log[j].op = "getbuild"}

\* a build was selected by the scan
Selected ==
    \/ pc \in {"await", "retry"}
    \/ pc = "done" /\ outcome \in {"BuildFailedError", "ok", "CacheError"} /\ Len(log) > 1
    \/ pc = "done" /\ outcome = "BuildFetchError" /\ build.running /\ Matches(build)

\* C12: build records are fetched in the listed order; the selected build is
\* the first in that order whose first parameter is the commit: every record
\* before it was fetched once and has another first parameter, no record after
\* it is fetched, and its success flag alone decides between BuildFailedError
\* and the cache retry.
C12_FirstMatchInListedOrder ==
    /\ \A j \in GetBuildCalls :
          LET p == Pos(log[j].arg) IN
          /\ p \in 1..Len(builds)
          /\ \A k \in GetBuildCalls : k < j => Pos(log[k].arg) <= p
          /\ \A q \in 1..(p - 1) :
                /\ ~FirstParamIs(q)
                /\ Cardinality({k \in GetBuildCalls : k < j /\ log[k].arg = Number(q)}) = 1
    /\ Selected =>
          /\ FirstParamIs(idx)
          /\ \A q \in 1..(idx - 1) : ~FirstParamIs(q)
          /\ \A j \in GetBuildCalls : Pos(log[j].arg) <= idx
          /\ (pc = "done" /\ outcome # "BuildFetchError") =>
                (outcome = "BuildFailedError" <=> ~builds[idx].good)
          /\ pc = "retry" => builds[idx].good

C12_Witness ==
    /\ pc = "done"
    /\ builds = << [params |-> <<"c1">>, good |-> FALSE],
                   [params |-> <<"c1">>, good |-> TRUE] >>
    /\ outcome = "BuildFailedError"
    /\ \A j \in GetBuildCalls : log[j].arg = Number(1)

\* the last getbuild call of the log
LastGetBuild == CHOOSE j \in GetBuildCalls : \A k \in GetBuildCalls : k <= j

\* C13: the success flag is evaluated and the cache retried only after the
\* selected build was observed not running; while it is observed running the
\* run stays in S4 and fetches the same build id again, the loop never gives
\* up, and S4 is left only on a not-running observation or a failed fetch.
C13_EvaluateOnlyWhenStopped ==
    /\ pc = "await" =>
          /\ build.running /\ FirstParamIs(idx)
          /\ Last(log) = Call("getbuild", Number(idx), TRUE)
          /\ outcome = "none"
    /\ (pc = "retry" \/ outcome = "BuildFailedError" \/ Fetches = 2) =>
          /\ ~build.running
          /\ log[LastGetBuild] = Call("getbuild", Number(idx), TRUE)
          /\ build.good = builds[idx].good
    /\ \A j \in GetBuildCalls :
          args[j].at = "await" => (log[j].arg = log[j - 1].arg /\ log[j - 1].op = "getbuild")
    /\ (pc = "done" /\ Len(log) > 0 /\ Last(log).op = "getbuild" /\ args[Len(log)].at = "await") =>
          \/ outcome = "BuildFetchError" /\ ~Last(log).ok
          \/ outcome = "BuildFailedError" /\ ~build.running
    /\ (pc = "await" /\ bPolls < MaxBuildPolls) => ENABLED (AwaitBuild /\ pc' = "await")

C13_Witness ==
    /\ pc = "retry"
    /\ bPolls >= 2
    /\ ~build.running
    /\ Cardinality({j \in GetBuildCalls : log[j].arg = Number(idx)}) = 3

StageOf(j) ==
    CASE log[j].op = "fetch" -> IF j = 1 THEN 0 ELSE 6
      [] log[j].op \in {"connect", "getjob", "invoke"} -> 1
      [] log[j].op = "queue" -> 2
      [] log[j].op = "list" -> 3
      [] log[j].op = "getbuild" -> IF args[j].at = "scan" THEN 3 ELSE 4

\* C15: the calls of a run follow the stage order S0, S1, S2, S3, S4, cache
\* retry; connect, job lookup, invoke and listing happen at most once and in
\* that order, S3 fetches no record twice, so that only the queue poll of S2
\* and the build poll of S4 repeat; the job looked up is pinata-{platform}-iso
\* and it is invoked with the single parameter COMMIT_ID = commit.
C15_StageOrder ==
    /\ \A j, k \in 1..Len(log) : j < k => StageOf(j) <= StageOf(k)
    /\ \A op \in {"connect", "getjob", "invoke", "list"} : Count(op) <= 1
    /\ \A j \in 1..Len(log) :
          /\ log[j].op = "connect" => j = 2
          /\ log[j].op = "getjob" => log[j - 1] = Call("connect", 0, TRUE)
          /\ log[j].op = "invoke" => log[j - 1] = Call("getjob", 0, TRUE)
          /\ (log[j].op = "fetch" /\ j > 1) => j = Len(log)
    /\ \A j, k \in GetBuildCalls :
          (j < k /\ args[j].at = "scan" /\ args[k].at = "scan") => log[j].arg # log[k].arg
    /\ \A j \in 1..Len(log) :
          /\ log[j].op = "getjob" =>
                args[j].name = <<"pinata-", req.platform, "-iso">>
          /\ log[j].op = "invoke" =>
                /\ DOMAIN args[j].params = {"COMMIT_ID"}
                /\ args[j].params["COMMIT_ID"] = commit

C15_Witness ==
    /\ pc = "done"
    /\ outcome = "ok"
    /\ Fetches = 2
    /\ qPolls > 0
    /\ bPolls > 0
    /\ idx = 2
    /\ req.platform = "win"

\* C16: every cache fetch of a run, the first one and the retry, is made with
\* the reference built from bucket, commit and platform, the same options and
\* the same force value as the run was started with.
C16_SameFetchArguments ==
    /\ \A j \in 1..Len(log) :
          log[j].op = "fetch" =>
              /\ args[j].url = <<"https://storage.googleapis.com/", bucket, "/",
                                 commit, "/docker-for-", req.platform, ".iso.tgz">>
              /\ args[j].options = options
              /\ args[j].force = req.force
    /\ Fetches = 2 => args[1] = args[Len(log)]

C16_Witness ==
    /\ pc = "done"
    /\ Fetches = 2
    /\ ~req.force
    /\ args[1] = args[Len(log)]
    /\ ~args[Len(log)].force

\* C18: a listed build record with an empty parameter list is treated as not
\* matching: after it was fetched the scan goes on with the next record (or
\* ends with BuildNotFoundError after the last one), and the run never ends
\* abnormally.
C18_EmptyParametersSkipped ==
    /\ outcome # "panic"
    /\ \A j \in GetBuildCalls :
          (log[j].ok /\ builds[Pos(log[j].arg)].params = <<>> /\ j = Len(log)) =>
              \/ pc = "scan" /\ idx = Pos(log[j].arg) + 1
              \/ pc = "done" /\ outcome = "BuildNotFoundError"

----------------------------------------------------------------------------
(* AssetUrl, src/github/github.go *)
(* Strings are sequences of one-character strings. *)

MaxHeaders == 2   \* length of the header list
MaxAssets == 2    \* length of the asset list of a release

LitScheme == <<"h", "t", "t", "p", "s", ":", "/", "/", "g", "i", "t", "h", "u", "b">>
LitCom == <<"c", "o", "m", "/">>
LitDownload == <<"/", "r", "e", "l", "e", "a", "s", "e", "s", "/",
                 "d", "o", "w", "n", "l", "o", "a", "d", "/">>
LitArchive == <<"/", "a", "r", "c", "h", "i", "v", "e", "/">>
ApiPrefix == <<"h", "t", "t", "p", "s", ":", "/", "/", "a", "p", "i", ".",
               "g", "i", "t", "h", "u", "b", ".", "c", "o", "m", "/",
               "r", "e", "p", "o", "s", "/">>
ApiTags == <<"/", "r", "e", "l", "e", "a", "s", "e", "s", "/", "t", "a", "g", "s", "/">>

\* s[i..] starts with lit
HasAt(s, i, lit) ==
    /\ i + Len(lit) - 1 <= Len(s)
    /\ \A k \in 1..Len(lit) : s[i + k - 1] = lit[k]

\* least j >= i with s[j] = c, or 0
IndexFrom(s, i, c) ==
    LET hits == {j \in i..Len(s) : s[j] = c}
    IN IF hits = {} THEN 0 ELSE CHOOSE j \in hits : \A k \in hits : j <= k

\* end of what .* takes from position i: it stops before a newline
DotStarEnd(s, i) ==
    LET nl == IndexFrom(s, i, "\n")
    IN IF nl = 0 THEN Len(s) ELSE nl - 1

\* ReleaseURL matched with its first character at position i:
\*   https://github . com/ ([^/]*) / ([^/]*) /releases/download/ ([^/]*) / (.*)
\* the submatches <<whole, org, project, tag, file>>, or <<>> when it does not
\* match there. [^/]* followed by "/" ends at the next "/".
MatchAt(s, i) ==
    LET dot == i + Len(LitScheme)
        org == dot + 1 + Len(LitCom)
        e1 == IndexFrom(s, org, "/")
        e2 == IndexFrom(s, e1 + 1, "/")
        tag == e2 + Len(LitDownload)
        e3 == IndexFrom(s, tag, "/")
        end == DotStarEnd(s, e3 + 1)
    IN IF /\ HasAt(s, i, LitScheme)
          /\ dot <= Len(s) /\ s[dot] # "\n"
          /\ HasAt(s, dot + 1, LitCom)
          /\ e1 # 0
          /\ e2 # 0
          /\ HasAt(s, e2, LitDownload)
          /\ e3 # 0
       THEN << SubSeq(s, i, end),
               SubSeq(s, org, e1 - 1),
               SubSeq(s, e1 + 1, e2 - 1),
               SubSeq(s, tag, e3 - 1),
               SubSeq(s, e3 + 1, end) >>
       ELSE <<>>

\* ReleaseURL.FindStringSubmatch(url): the leftmost match, nil when none
\* (github.go:13, 26)
FindStringSubmatch(s) ==
    LET starts == {i \in 1..Len(s) : MatchAt(s, i) # <<>>}
    IN IF starts = {} THEN <<>>
       ELSE MatchAt(s, CHOOSE i \in starts : \A k \in starts : i <= k)

\* "https://api.github.com/repos/" + org + "/" + project + "/releases/tags/" + tag
\* (github.go:27-30); parts[n] of the code is parts[n + 1] here
AssetsUrl(parts) ==
    ApiPrefix \o parts[2] \o <<"/">> \o parts[3] \o ApiTags \o parts[4]

HexDigits == {"0", "1", "2", "3", "4", "5", "6", "7", "8", "9",
              "a", "b", "c", "d", "e", "f", "A", "B", "C", "D", "E", "F"}

\* http.NewRequest fails when the URL does not parse: a "%" that is not
\* followed by two hex digits (github.go:32-35)
NewRequestFails(u) ==
    \E i \in 1..Len(u) :
        /\ u[i] = "%"
        /\ ~(i + 2 <= Len(u) /\ u[i + 1] \in HexDigits /\ u[i + 2] \in HexDigits)

\* strings.Split(header, "=") (github.go:72)
RECURSIVE Split(_)
Split(s) ==
    LET i == IndexFrom(s, 1, "=")
    IN IF i = 0 THEN <<s>>
       ELSE <<SubSeq(s, 1, i - 1)>> \o Split(SubSeq(s, i + 1, Len(s)))

\* len(parts) != 2 is the error case (github.go:73)
ValidHeaderMut(parts) == Len(parts) >= 2
ValidHeader(parts) == Len(parts) = 2

\* addHeaders (github.go:70-80) from entry i on, acc being the headers added
\* to the request so far
RECURSIVE addHeaders(_, _, _)
addHeaders(headers, i, acc) ==
    IF i > Len(headers)
    THEN [err |-> FALSE, header |-> <<>>, added |-> acc]
    ELSE LET parts == Split(headers[i])
         IN IF ~ValidHeader(parts)
            THEN [err |-> TRUE, header |-> headers[i], added |-> acc]
            ELSE addHeaders(headers, i + 1, Append(acc, <<parts[1], parts[2]>>))

StatusBadRequest == 400

\* resp.StatusCode >= http.StatusBadRequest (github.go:47)
IsErrorStatusMut(status) == status > StatusBadRequest
IsErrorStatus(status) == status >= StatusBadRequest

\* relAsset.BrowserDownloadURL == url (github.go:62)
AssetMatches(a, url) == a.browser = url

\* the loop over rel.Assets (github.go:61-65): index of the asset returned
\* when scanning from i on, 0 when the loop ends without returning
RECURSIVE ScanAssetsMut(_, _, _)
ScanAssetsMut(assets, i, url) ==
    IF i > Len(assets) THEN 0
    ELSE LET later == ScanAssetsMut(assets, i + 1, url)
         IN IF later # 0 THEN later
            ELSE IF AssetMatches(assets[i], url) THEN i ELSE 0
RECURSIVE ScanAssets(_, _, _)
ScanAssets(assets, i, url) ==
    IF i > Len(assets) THEN 0
    ELSE IF AssetMatches(assets[i], url) THEN i
    ELSE ScanAssets(assets, i + 1, url)

\* what a call produced: kind is "ok", "error" or "panic"; requests counts the
\* HTTP requests issued, attached lists the headers of the request that was
\* sent, scanned tells whether the body was searched for assets
Out(kind, err, requests) ==
    [kind |-> kind, err |-> err, result |-> <<>>, status |-> 0, header |-> <<>>,
     requests |-> requests, attached |-> <<>>, scanned |-> FALSE]

\* AssetUrl (github.go:25-68) on a reference, a header list and the HTTP
\* exchange net that the request meets if it is sent
AssetUrl(url, headers, net) ==
    LET parts == FindStringSubmatch(url) IN
    IF Len(parts) < 4
    THEN \* parts[1] on a nil slice: index out of range
         Out("panic", "", 0)
    ELSE IF NewRequestFails(AssetsUrl(parts))
    THEN Out("error", "RequestError", 0)
    ELSE LET h == addHeaders(headers, 1, <<>>) IN
    IF h.err
    THEN [Out("error", "InvalidHeaderError", 0) EXCEPT !.header = h.header]
    ELSE LET sent == [Out("error", "", 1) EXCEPT !.attached = h.added] IN
    IF net.doErr
    THEN [sent EXCEPT !.err = "TransportError"]
    ELSE IF IsErrorStatus(net.status)
    THEN [sent EXCEPT !.err = "RemoteAPIError", !.status = net.status]
    ELSE IF net.readErr
    THEN [sent EXCEPT !.err = "ReadError"]
    ELSE IF ~net.body.parsed
    THEN [sent EXCEPT !.err = "MalformedResponseError"]
    ELSE LET m == ScanAssets(net.body.assets, 1, url) IN
    IF m # 0
    THEN [sent EXCEPT !.kind = "ok", !.result = net.body.assets[m].url,
                      !.scanned = TRUE]
    ELSE [sent EXCEPT !.err = "AssetNotFoundError", !.scanned = TRUE]

(* Inputs of the call *)

RefOf(prefix, sep, org, mid, tail) ==
    prefix \o LitScheme \o sep \o LitCom \o org \o <<"/", "p">> \o mid \o tail

RefF == RefOf(<<>>, <<".">>, <<"o">>, LitDownload, <<"t", "/", "f">>)
RefG == RefOf(<<>>, <<".">>, <<"o">>, LitDownload, <<"t", "/", "g">>)
RefPrefixed == RefOf(<<"x">>, <<".">>, <<"o">>, LitDownload, <<"t", "/", "f">>)
RefAnyDot == RefOf(<<>>, <<"X">>, <<"o">>, LitDownload, <<"t", "/", "f">>)
RefEmptyOrg == RefOf(<<>>, <<".">>, <<>>, LitDownload, <<"t", "/">>)
RefBadEscape == RefOf(<<>>, <<".">>, <<"%">>, LitDownload, <<"t", "/", "f">>)
RefArchive == RefOf(<<>>, <<".">>, <<"o">>, LitArchive, <<"t">>)
RefNoFile == RefOf(<<>>, <<".">>, <<"o">>, LitDownload, <<"t">>)
Refs == {RefF, RefG, RefPrefixed, RefAnyDot, RefEmptyOrg, RefBadEscape,
         RefArchive, RefNoFile, <<>>}

HeaderEntries == { <<"k", "=", "v">>, <<"a", "b", "c">>, <<"k", "=", "v", "=", "w">> }

\* type asset (github.go:19-23)
Asset(browser, url) == [browser |-> browser, url |-> url]
Assets == {Asset(RefF, <<"a", "1">>), Asset(RefF, <<"a", "2">>), Asset(RefG, <<"a", "3">>)}

NoBody == [parsed |-> FALSE, assets |-> <<>>]
Bodies == {NoBody} \cup {[parsed |-> TRUE, assets |-> a] : a \in SeqsUpTo(Assets, MaxAssets)}
Statuses == {200, 399, 400, 404}

\* the HTTP exchange: Do fails, or answers with a status and a body that
\* cannot be read, or with a status and a body
Exchanges ==
    {[doErr |-> TRUE, status |-> 0, readErr |-> FALSE, body |-> NoBody]}
    \cup {[doErr |-> FALSE, status |-> st, readErr |-> TRUE, body |-> NoBody] :
             st \in Statuses}
    \cup {[doErr |-> FALSE, status |-> st, readErr |-> FALSE, body |-> b] :
             st \in Statuses, b \in Bodies}

\* one call of AssetUrl
ResolveAsset ==
    /\ apc = "idle"
    /\ \E url \in Refs, headers \in SeqsUpTo(HeaderEntries, MaxHeaders),
          net \in Exchanges :
         call' = [url |-> url, headers |-> headers, net |-> net,
                  out |-> AssetUrl(url, headers, net)]
    /\ apc' = "done"
    /\ UNCHANGED pvars

InitAsset ==
    /\ pc = "S0"
    /\ outcome = "none"
    /\ printed = 0
    /\ log = <<>>
    /\ builds = <<>>
    /\ idx = 0
    /\ build = NoBuild
    /\ qPolls = 0
    /\ bPolls = 0
    /\ req = [platform |-> "mac", force |-> FALSE]
    /\ args = <<>>
    /\ AssetIdle

NextAsset == ResolveAsset

SpecAsset == InitAsset /\ [][NextAsset]_vars

----------------------------------------------------------------------------
(* Properties of the AssetUrl call *)

\* the reference has the release-download URL shape
Matched(url) == FindStringSubmatch(url) # <<>>

\* the GET request for the reference can be constructed
Constructible(url) ==
    Matched(url) /\ ~NewRequestFails(AssetsUrl(FindStringSubmatch(url)))

EqCount(h) == Cardinality({i \in 1..Len(h) : h[i] = "="})
BadEntries(hs) == {i \in 1..Len(hs) : EqCount(hs[i]) # 1}
FirstBad(hs) == CHOOSE i \in BadEntries(hs) : \A j \in BadEntries(hs) : i <= j

\* key and value of an entry with exactly one "="
KeyValue(h) ==
    LET i == CHOOSE j \in 1..Len(h) : h[j] = "="
    IN <<SubSeq(h, 1, i - 1), SubSeq(h, i + 1, Len(h))>>

\* C6: a reference that does not match the release-download URL shape makes
\* the call return MalformedReferenceError, without a crash and without a
\* network request.
C6_MalformedReferenceIsError ==
    (apc = "done" /\ ~Matched(call.url)) =>
        /\ call.out.kind = "error"
        /\ call.out.err = "MalformedReferenceError"
        /\ call.out.requests = 0

ParsedList ==
    /\ apc = "done"
    /\ Constructible(call.url)
    /\ BadEntries(call.headers) = {}
    /\ ~call.net.doErr
    /\ call.net.status < 400
    /\ ~call.net.readErr
    /\ call.net.body.parsed

\* C8: for a well-formed reference and a parsed asset list, the call returns
\* the url of the first asset in list order whose browser_download_url equals
\* the reference; when no asset has it (the empty list included) the call
\* fails with AssetNotFoundError and returns no location.
C8_FirstExactMatch ==
    ParsedList =>
        LET assets == call.net.body.assets
            hits == {i \in 1..Len(assets) : assets[i].browser = call.url}
        IN IF hits = {}
           THEN /\ call.out.kind = "error"
                /\ call.out.err = "AssetNotFoundError"
                /\ call.out.result = <<>>
           ELSE /\ call.out.kind = "ok"
                /\ \E i \in hits :
                      /\ \A j \in hits : i <= j
                      /\ call.out.result = assets[i].url

C8_Witness ==
    /\ ParsedList
    /\ call.url = RefF
    /\ call.net.body.assets =
           << Asset(RefG, <<"a", "3">>), Asset(RefF, <<"a", "2">>) >>
    /\ call.out.kind = "ok"
    /\ call.out.result = <<"a", "2">>

\* C9: a call issues at most one request; a response with status >= 400
\* makes it fail with RemoteAPIError carrying that status, the body not being
\* searched for assets; a body that does not parse makes it fail with
\* MalformedResponseError.
C9_OneRequestNoRetry ==
    apc = "done" =>
        /\ call.out.requests <= 1
        /\ (call.out.requests = 1 /\ ~call.net.doErr /\ call.net.status >= 400) =>
              /\ call.out.kind = "error"
              /\ call.out.err = "RemoteAPIError"
              /\ call.out.status = call.net.status
              /\ ~call.out.scanned
              /\ call.out.result = <<>>
        /\ (/\ call.out.requests = 1 /\ ~call.net.doErr /\ call.net.status < 400
            /\ ~call.net.readErr /\ ~call.net.body.parsed) =>
              /\ call.out.kind = "error"
              /\ call.out.err = "MalformedResponseError"

C9_Witness ==
    /\ apc = "done"
    /\ call.out.requests = 1
    /\ call.net.status = 404
    /\ call.net.body.parsed
    /\ \E i \in 1..Len(call.net.body.assets) :
          call.net.body.assets[i].browser = call.url
    /\ call.out.err = "RemoteAPIError"
    /\ call.out.status = 404

----------------------------------------------------------------------------
(* The Extract command, src/main.go:61-89, 220-258 *)
(* An argument is a sequence of tokens; the last token of a url is its suffix. *)

MaxArgs == 4   \* length of the argument list

Urls == { <<"a", ".zip">>, <<"a", ".tgz">>, <<"a.zip", ".tar">>, <<"a", ".txt">> }
Names == { <<"s">>, <<"d">> }
ArgLists ==
    {<<>>} \cup {<<u>> \o rest : u \in Urls, rest \in SeqsUpTo(Names, MaxArgs - 1)}

\* urls.IsZipArchive, urls.IsTarArchive: the suffix classes of a reference
IsZipArchive(url) == Last(url) = ".zip"
IsTarArchive(url) == Last(url) \in {".tar", ".tgz", ".tar.gz", ".tar.bz2"}

\* the local path cache.Download returns for a url
Source(url) == <<"cache/">> \o url

\* what a command produced: kind is "ok", "error" or "panic"; fetched lists the
\* urls given to cache.Download, dispatched the extraction calls made
Result(kind, err, detail, fetched, dispatched) ==
    [kind |-> kind, err |-> err, detail |-> detail,
     fetched |-> fetched, dispatched |-> dispatched]

\* the call of an archive implementation and what Extract returns from it
Extraction(impl, url, request, implOk) ==
    Result(IF implOk THEN "ok" ELSE "error", IF implOk THEN "" ELSE "ExtractionError",
           <<>>, <<url>>,
           << [impl |-> impl, source |-> Source(url), request |-> request] >>)

\* the tail of Extract and of ExtractFiles (main.go:228-235, 250-257)
Dispatch(url, request, implOk) ==
    IF IsZipArchive(url) THEN Extraction("zip", url, request, implOk)
    ELSE IF IsTarArchive(url) THEN Extraction("tar", url, request, implOk)
    ELSE \* errors.New("Unsupported archive: " + source)
         Result("error", "UnsupportedArchiveError", Source(url), <<url>>, <<>>)

\* Extract (main.go:220-236)
Extract(url, destinationDirectory, fetchOk, implOk) ==
    IF ~fetchOk THEN Result("error", "CacheError", <<>>, <<url>>, <<>>)
    ELSE Dispatch(url, [all |-> destinationDirectory], implOk)

\* ExtractFiles (main.go:240-258)
ExtractFiles(url, files, fetchOk, implOk) ==
    IF ~fetchOk THEN Result("error", "CacheError", <<>>, <<url>>, <<>>)
    ELSE Dispatch(url, [files |-> files], implOk)

\* args[i] of the code
GoAt(a, i) == a[i + 1]

\* for i := 1; i < len(args); i += 2 { append(..., {args[i], args[i+1]}) }
\* (main.go:79-85): the files collected from index i on, panic telling
\* whether an index past the end was read
RECURSIVE ExtractedFiles(_, _, _)
ExtractedFiles(a, i, acc) ==
    IF ~(i < Len(a)) THEN [panic |-> FALSE, files |-> acc]
    ELSE IF ~(i + 1 < Len(a)) THEN [panic |-> TRUE, files |-> acc]
    ELSE ExtractedFiles(a, i + 2,
             Append(acc, [Source |-> GoAt(a, i), Destination |-> GoAt(a, i + 1)]))

\* RunE of the Extract command (main.go:64-88)
ExtractRunE(a, fetchOk, implOk) ==
    IF Len(a) < 2
    THEN Result("error", "UsageError", <<>>, <<>>, <<>>)
    ELSE IF Len(a) = 2
    THEN Extract(GoAt(a, 0), GoAt(a, 1), fetchOk, implOk)
    ELSE LET ef == ExtractedFiles(a, 1, <<>>) IN
         IF ef.panic
         THEN Result("panic", "", <<>>, <<>>, <<>>)
         ELSE ExtractFiles(GoAt(a, 0), ef.files, fetchOk, implOk)

\* one run of the Extract command
ExtractCommand ==
    /\ apc = "idle"
    /\ \E a \in ArgLists, fetchOk \in BOOLEAN, implOk \in BOOLEAN :
         call' = [args |-> a, fetchOk |-> fetchOk, implOk |-> implOk,
                  out |-> ExtractRunE(a, fetchOk, implOk)]
    /\ apc' = "done"
    /\ UNCHANGED pvars

InitExtract == InitAsset

NextExtract == ExtractCommand

SpecExtract == InitExtract /\ [][NextExtract]_vars

(* Properties of the Extract command *)

\* C17: Extract and ExtractFiles dispatch only after a successful cache fetch
\* and to at most one implementation chosen by the suffix of the reference:
\* zip, otherwise tar, otherwise the call fails with UnsupportedArchiveError
\* identifying the reference and extracts nothing; a failed fetch is returned
\* and nothing is extracted.
C17_DispatchBySuffix ==
    (apc = "done" /\ Len(call.args) >= 2 /\ call.out.kind # "panic") =>
        LET url == call.args[1]
            out == call.out
        IN /\ out.fetched = <<url>>
           /\ Len(out.dispatched) <= 1
           /\ IF ~call.fetchOk
              THEN out.kind = "error" /\ out.err = "CacheError" /\ out.dispatched = <<>>
              ELSE IF Last(url) = ".zip"
              THEN Len(out.dispatched) = 1 /\ out.dispatched[1].impl = "zip"
              ELSE IF Last(url) \in {".tar", ".tgz", ".tar.gz", ".tar.bz2"}
              THEN Len(out.dispatched) = 1 /\ out.dispatched[1].impl = "tar"
              ELSE /\ out.kind = "error"
                   /\ out.err = "UnsupportedArchiveError"
                   /\ out.detail = url
                   /\ out.dispatched = <<>>

\* C19: for an argument list of length >= 3 the command builds the pairs
\* (args[1], args[2]), (args[3], args[4]), ... and never reads an index past
\* the end of the list, also when the number of arguments after the url is odd.
C19_PairsWithinBounds ==
    (apc = "done" /\ Len(call.args) >= 3) =>
        /\ call.out.kind # "panic"
        /\ (call.fetchOk /\ Len(call.out.dispatched) = 1) =>
              LET files == call.out.dispatched[1].request.files
              IN /\ Len(files) = (Len(call.args) - 1) \div 2
                 /\ \A n \in 1..Len(files) :
                       /\ files[n].Source = call.args[2 * n]
                       /\ files[n].Destination = call.args[2 * n + 1]

====
